---------------------------- MODULE Spec2Model ----------------------------
(***************************************************************************)
(* A model of src/src/components/ColorAnalyzer.jsx: the React component's  *)
(* state (imageData, colorStats, isAnalyzing, progress, activeChannel),    *)
(* its handlers (onDrop, resetImage, analyzeImage, the channel toggle) and *)
(* the algorithms of analyzeImage: scaling, grid sampling, greedy          *)
(* first-match clustering, CMYK accumulation and ranking.                  *)
(***************************************************************************)
EXTENDS Integers, Sequences, FiniteSets, TLC

VARIABLES
    imageData,        \* useState: the loaded Image, or Null
    colorStats,       \* useState: the published report, or Null
    isAnalyzing,      \* useState
    progress,         \* useState
    activeChannel,    \* useState: NoChannel or a channel name
    reading,          \* dropped files whose FileReader read is in flight
    decoding,         \* images whose load (img.onload) is in flight
    pc,               \* position in analyzeImage: "idle" or "sampling"
    canvas,           \* the analysis canvas: [width, height]
    totalPixels,      \* analyzeImage local (line 70)
    pixelsAnalyzed,   \* analyzeImage local (line 71)
    x,                \* outer loop variable (line 81)
    y,                \* inner loop variable (line 82)
    hex,              \* key of the sample taken last (line 87)
    colorMap,         \* insertion-ordered Map hex -> count (line 73)
    overallCmyk,      \* running CMYK sums (line 74)
    firstHex,         \* history: key of the first sample of the pass
    cancelRequested   \* a Reset click arrived while the loop was running

vars == << imageData, colorStats, isAnalyzing, progress, activeChannel,
           reading, decoding, pc, canvas, totalPixels, pixelsAnalyzed, x, y, hex,
           colorMap, overallCmyk, firstHex, cancelRequested >>

\* null, for the state that holds objects, for the channel name and for
\* the not yet assigned key
Null == [null |-> TRUE]
NoChannel == "null"
NoHex == << >>

(***************************************************************************)
(* Program constants.                                                      *)
(***************************************************************************)
maxDimension == 1000
sampleEvery == 5
Threshold == 15
ProgressEvery == 1000
MantBits == 53

Max(a, b) == IF a >= b THEN a ELSE b
Min(a, b) == IF a <= b THEN a ELSE b
CeilDiv(a, b) == (a + b - 1) \div b

(***************************************************************************)
(* IEEE-754 binary64 arithmetic, as far as analyzeImage uses it (line 62:  *)
(* one division of integers; lines 65-66: one product of an integer and    *)
(* that quotient).  Natural numbers beyond 32 bits are sequences of        *)
(* base-2^DigitBits digits, most significant first.  A positive double is  *)
(* [mant, exp] with mant < 2^MantBits: its value is mant * 2^exp.          *)
(***************************************************************************)
DigitBits == 13
Base == 2 ^ DigitBits

RECURSIVE Strip(_)
Strip(ds) == IF ds # << >> /\ ds[1] = 0 THEN Strip(Tail(ds)) ELSE ds

RECURSIVE SmallBitLen(_)
SmallBitLen(n) == IF n = 0 THEN 0 ELSE 1 + SmallBitLen(n \div 2)

\* the number of significant bits of ds
BitLen(ds) ==
    LET s == Strip(ds)
    IN  IF s = << >> THEN 0 ELSE (Len(s) - 1) * DigitBits + SmallBitLen(s[1])

\* floor(ds / 2^k), for k < DigitBits
ShiftSmall(ds, k) ==
    [i \in 1..Len(ds) |->
        (IF i = 1 THEN 0 ELSE (ds[i - 1] % (2 ^ k)) * (2 ^ (DigitBits - k)))
        + ds[i] \div (2 ^ k)]

\* floor(ds / 2^s)
ShiftRight(ds, s) ==
    LET whole == Min(s \div DigitBits, Len(ds))
    IN  ShiftSmall(SubSeq(ds, 1, Len(ds) - whole), s % DigitBits)

\* ds mod 2^s is not zero
LowNonZero(ds, s) ==
    LET whole == Min(s \div DigitBits, Len(ds))
        part  == s % DigitBits
    IN  \/ \E i \in (Len(ds) - whole + 1)..Len(ds) : ds[i] # 0
        \/ /\ whole < Len(ds)
           /\ ds[Len(ds) - whole] % (2 ^ part) # 0

IsOdd(ds) == ds # << >> /\ ds[Len(ds)] % 2 = 1

\* the digits of the small number n
RECURSIVE IntDigits(_)
IntDigits(n) ==
    IF n = 0 THEN << >> ELSE IntDigits(n \div Base) \o << n % Base >>

\* the small number with digits ds
RECURSIVE DigitsToInt(_)
DigitsToInt(ds) ==
    IF ds = << >> THEN 0
    ELSE Base * DigitsToInt(SubSeq(ds, 1, Len(ds) - 1)) + ds[Len(ds)]

\* ds + 1
RECURSIVE IncDigits(_)
IncDigits(ds) ==
    IF ds = << >> THEN << 1 >>
    ELSE IF ds[Len(ds)] < Base - 1
         THEN SubSeq(ds, 1, Len(ds) - 1) \o << ds[Len(ds)] + 1 >>
         ELSE IncDigits(SubSeq(ds, 1, Len(ds) - 1)) \o << 0 >>

\* ds * d + carry, for small d: the digits from position i down
RECURSIVE MulDigits(_, _, _, _)
MulDigits(ds, d, i, carry) ==
    IF i = 0 THEN IntDigits(carry)
    ELSE LET t == ds[i] * d + carry
         IN  MulDigits(ds, d, i - 1, t \div Base) \o << t % Base >>

\* round-to-nearest, ties-to-even, of (ds + a tail in [0,1)) * 2^e to
\* MantBits significant bits; rest says that the tail is not zero
RoundToDouble(ds, rest, e) ==
    LET drop == BitLen(ds) - MantBits
    IN  IF drop <= 0 THEN [mant |-> Strip(ds), exp |-> e]
        ELSE LET top    == ShiftRight(ds, drop)
                 guard  == IsOdd(ShiftRight(ds, drop - 1))
                 sticky == rest \/ LowNonZero(ds, drop - 1)
                 up     == guard /\ (sticky \/ IsOdd(top))
             IN  [mant |-> Strip(IF up THEN IncDigits(top) ELSE top),
                  exp  |-> e + drop]

\* the first n base-Base digits of r / b after the point, for 0 <= r < b
RECURSIVE FracDigits(_, _, _)
FracDigits(r, b, n) ==
    IF n = 0 THEN << >>
    ELSE << (r * Base) \div b >> \o FracDigits((r * Base) % b, b, n - 1)

\* the remainder left after those n digits
RECURSIVE FracRem(_, _, _)
FracRem(r, b, n) == IF n = 0 THEN r ELSE FracRem((r * Base) % b, b, n - 1)

\* digits of the quotient computed before rounding: MantBits and a guard
\* bit remain after the leading zeros of a quotient above 2^-DigitBits
QuotDigits == (MantBits + 2) \div DigitBits + 2

\* the double a / b, for integers 0 < a < b
FDiv(a, b) ==
    RoundToDouble(FracDigits(a, b, QuotDigits),
                  FracRem(a, b, QuotDigits) # 0,
                  0 - QuotDigits * DigitBits)

\* the double d * f, for an integer d > 0 and a double f
FMul(d, f) == RoundToDouble(MulDigits(f.mant, d, Len(f.mant), 0), FALSE, f.exp)

\* the conversion to unsigned long of the canvas.width / canvas.height
\* setters: truncation (the values here are below 2^31)
ToUnsignedLong(f) ==
    IF f.exp >= 0 THEN DigitsToInt(f.mant) * (2 ^ f.exp)
    ELSE DigitsToInt(Strip(ShiftRight(f.mant, 0 - f.exp)))

(***************************************************************************)
(* The binary64 operations of the colour conversions: sums, differences,   *)
(* products and quotients of doubles that are zero or positive, each       *)
(* rounded to nearest, ties to even.  Zero is the double of empty mantissa.*)
(***************************************************************************)
\* ds * 2^s
ShiftLeft(ds, s) ==
    MulDigits(ds, 2 ^ (s % DigitBits), Len(ds), 0)
        \o [i \in 1..(s \div DigitBits) |-> 0]

\* a < b, for digit sequences without leading zeros
LessDigits(a, b) ==
    \/ Len(a) < Len(b)
    \/ /\ Len(a) = Len(b)
       /\ \E i \in 1..Len(a) :
             a[i] < b[i] /\ \A j \in 1..(i - 1) : a[j] = b[j]

\* ds with leading zeros, up to n digits
Pad(ds, n) == [i \in 1..(n - Len(ds)) |-> 0] \o ds

\* a + b + carry: the digits from position i down, for a and b as long
RECURSIVE AddFrom(_, _, _, _)
AddFrom(a, b, i, carry) ==
    IF i = 0 THEN IntDigits(carry)
    ELSE LET t == a[i] + b[i] + carry
         IN  AddFrom(a, b, i - 1, t \div Base) \o << t % Base >>

AddDigits(a, b) ==
    LET n == Max(Len(a), Len(b))
    IN  Strip(AddFrom(Pad(a, n), Pad(b, n), n, 0))

\* a - b - borrow, for a >= b as long
RECURSIVE SubFrom(_, _, _, _)
SubFrom(a, b, i, borrow) ==
    IF i = 0 THEN << >>
    ELSE LET t == a[i] - b[i] - borrow
         IN  SubFrom(a, b, i - 1, IF t < 0 THEN 1 ELSE 0)
                 \o << IF t < 0 THEN t + Base ELSE t >>

SubDigits(a, b) ==
    LET n == Max(Len(a), Len(b))
    IN  Strip(SubFrom(Pad(a, n), Pad(b, n), n, 0))

\* a * b
RECURSIVE MulBig(_, _)
MulBig(a, b) ==
    IF b = << >> THEN << >>
    ELSE AddDigits(MulBig(a, SubSeq(b, 1, Len(b) - 1)) \o << 0 >>,
                   MulDigits(a, b[Len(b)], Len(a), 0))

\* the double of the integer n, 0 <= n < 2^31
FromInt(n) == [mant |-> IntDigits(n), exp |-> 0]

IsZero(f) == f.mant = << >>

\* the exponent both mantissas can be written at, and a mantissa there
AlignExp(f, g) ==
    IF IsZero(f) THEN g.exp ELSE IF IsZero(g) THEN f.exp
    ELSE Min(f.exp, g.exp)

Aligned(f, e) ==
    IF IsZero(f) THEN << >> ELSE Strip(ShiftLeft(f.mant, f.exp - e))

\* f + g
FAdd(f, g) ==
    IF IsZero(f) THEN g ELSE IF IsZero(g) THEN f
    ELSE LET e == Min(f.exp, g.exp)
         IN  RoundToDouble(AddDigits(Aligned(f, e), Aligned(g, e)), FALSE, e)

\* f - g, for f >= g
FSub(f, g) ==
    IF IsZero(g) THEN f
    ELSE LET e == Min(f.exp, g.exp)
         IN  RoundToDouble(SubDigits(Aligned(f, e), Aligned(g, e)), FALSE, e)

\* f < g
FLess(f, g) ==
    LET e == AlignExp(f, g)
    IN  LessDigits(Aligned(f, e), Aligned(g, e))

\* Math.min(f, g)
FMin(f, g) == IF FLess(g, f) THEN g ELSE f

\* f * g
FTimes(f, g) ==
    IF IsZero(f) THEN f ELSE IF IsZero(g) THEN g
    ELSE RoundToDouble(MulBig(f.mant, g.mant), FALSE, f.exp + g.exp)

\* bits of the divisor and of the dividend that estimate a quotient digit
\* within one: their quotient stays below 2^31
EstimateBits == DigitBits + 2

\* the digit floor(r * Base / b), for r < b: it lies between the quotients
\* of the leading bits taken with the divisor rounded up and rounded down,
\* and it is their quotient when no bit is left out
QuotDigit(r, b) ==
    LET s  == Max(BitLen(b) - EstimateBits, 0)
        rB == Strip(r \o << 0 >>)
        bt == DigitsToInt(Strip(ShiftRight(b, s)))
        rt == DigitsToInt(Strip(ShiftRight(rB, s)))
        lo == IF s = 0 THEN rt \div bt ELSE rt \div (bt + 1)
    IN  CHOOSE d \in lo..Min(rt \div bt, Base - 1) :
            /\ ~LessDigits(rB, Strip(MulDigits(b, d, Len(b), 0)))
            /\ LessDigits(rB, Strip(MulDigits(b, d + 1, Len(b), 0)))

\* the digit d put before the digits of rest
QuotCons(d, rest) == [quot |-> << d >> \o rest.quot, rem |-> rest.rem]

\* the first n base-Base digits of r / b after the point, for r < b, and
\* the remainder left after them; LongDivFrom is given the first digit
RECURSIVE LongDiv(_, _, _)
LongDivFrom(d, r, b, n) ==
    QuotCons(d, LongDiv(SubDigits(Strip(r \o << 0 >>),
                                  Strip(MulDigits(b, d, Len(b), 0))),
                        b, n - 1))

LongDiv(r, b, n) ==
    IF n = 0 THEN [quot |-> << >>, rem |-> r]
    ELSE LongDivFrom(QuotDigit(r, b), r, b, n)

\* the quotient digits d, with their remainder, rounded
FQuotRounded(d, e) == RoundToDouble(d.quot, d.rem # << >>, e)

\* f / g for mantissas that 2^t scales to 1/4 < a / b < 1
FQuotScaled(f, g, t) ==
    FQuotRounded(
        LongDiv(IF t < 0 THEN Strip(ShiftLeft(f.mant, 0 - t)) ELSE f.mant,
                IF t > 0 THEN Strip(ShiftLeft(g.mant, t)) ELSE g.mant,
                QuotDigits),
        f.exp - g.exp + t - QuotDigits * DigitBits)

\* f / g, for g > 0
FQuot(f, g) ==
    IF IsZero(f) THEN f
    ELSE FQuotScaled(f, g, BitLen(f.mant) - BitLen(g.mant) + 1)

\* Math.round(f): the integer floor(f + 1/2), computed exactly
MathRound(f) ==
    IF IsZero(f) THEN 0
    ELSE IF f.exp >= 0 THEN DigitsToInt(f.mant) * (2 ^ f.exp)
    ELSE DigitsToInt(Strip(ShiftRight(
             AddDigits(f.mant, ShiftLeft(<< 1 >>, 0 - f.exp - 1)),
             0 - f.exp)))

(***************************************************************************)
(* analyzeImage, lines 56-66: the canvas dimension for a source dimension  *)
(* d of an image of size width x height.                                   *)
(***************************************************************************)
CanvasDim(d, width, height) ==
    IF width > maxDimension \/ height > maxDimension
    THEN ToUnsignedLong(FMul(d, FDiv(maxDimension, Max(width, height))))
    ELSE d


(***************************************************************************)
(* Colours.  An RGB triple is << r, g, b >>; a key is the string           *)
(* "#rrggbb", modelled by its six hexadecimal digits.                      *)
(***************************************************************************)
\* line 87: v.toString(16).padStart(2, '0'), joined
ToHex(rgb) ==
    << rgb[1] \div 16, rgb[1] % 16,
       rgb[2] \div 16, rgb[2] % 16,
       rgb[3] \div 16, rgb[3] % 16 >>

\* lines 183-188: parseInt of the three two-digit slices
hexToRgb(h) == << 16 * h[1] + h[2], 16 * h[3] + h[4], 16 * h[5] + h[6] >>

\* lines 190-198, before the square root: the sum of the squared differences
colorDistanceSq(hex1, hex2) ==
    LET c1 == hexToRgb(hex1)
        c2 == hexToRgb(hex2)
    IN  (c2[1] - c1[1]) * (c2[1] - c1[1])
        + (c2[2] - c1[2]) * (c2[2] - c1[2])
        + (c2[3] - c1[3]) * (c2[3] - c1[3])

\* IsSimilar with the threshold included
IsSimilarInclusive(hex1, hex2) ==
    colorDistanceSq(hex1, hex2) <= Threshold * Threshold

\* IsSimilar comparing the sum of squares itself with the threshold
IsSimilarUnsquared(hex1, hex2) == colorDistanceSq(hex1, hex2) < Threshold

\* line 101: colorDistance(hex, existingHex) < 15.  Math.sqrt is monotone
\* and exact on perfect squares, so sqrt(s) < 15 exactly when s < 15 * 15.
IsSimilar(hex1, hex2) == colorDistanceSq(hex1, hex2) < Threshold * Threshold

\* Math.round(n / d) for integers n >= 0, d > 0
RoundDiv(n, d) == (2 * n + d) \div (2 * d)

One == FromInt(1)

\* the double v / 255 of a channel value v
Normalised(v) == FQuot(FromInt(v), FromInt(255))

\* convert.rgb.cmyk, the double k = Math.min(1 - r, 1 - g, 1 - b) of a pixel
\* whose largest channel value is m
BlackDouble(m) == FSub(One, Normalised(m))

\* convert.rgb.cmyk, Math.round(k * 100)
CmykBlackDouble(m) == MathRound(FTimes(BlackDouble(m), FromInt(100)))

\* convert.rgb.cmyk, Math.round(((1 - r - k) / (1 - k) || 0) * 100) for the
\* channel value v: 0 / 0 is NaN, which || 0 turns into 0
CmykChannelOf(r, k, d) ==
    IF IsZero(d) THEN 0
    ELSE MathRound(FTimes(FQuot(FSub(FSub(One, r), k), d), FromInt(100)))

CmykChannelDouble(v, m) ==
    CmykChannelOf(Normalised(v), BlackDouble(m), FSub(One, BlackDouble(m)))

\* convert.cmyk.rgb, Math.round((1 - Math.min(1, c * (1 - k) + k)) * 255)
\* for the percentages c and k
RgbChannelOf(cf, kf) ==
    MathRound(FTimes(
        FSub(One, FMin(One, FAdd(FTimes(cf, FSub(One, kf)), kf))),
        FromInt(255)))

RgbChannelDouble(c, k) ==
    RgbChannelOf(FQuot(FromInt(c), FromInt(100)),
                 FQuot(FromInt(k), FromInt(100)))

\* n / d is exactly half-way between two integers
IsHalfway(n, d) == (2 * n) % d = 0 /\ ((2 * n) \div d) % 2 = 1

\* The doubles above are within 2^-40 of the exact quotients
\* 100 (m - v) / m, 100 (255 - m) / 255 and 255 (100 - c)(100 - k) / 10000,
\* and such a quotient, when not half-way, is at least 1 / 20000 away from
\* half-way: Math.round of the double is then the rounding of the exact
\* quotient.  Half-way, the doubles decide.
CmykChannel(v, m) ==
    IF m = 0 THEN 0
    ELSE IF IsHalfway(100 * (m - v), m) THEN CmykChannelDouble(v, m)
    ELSE RoundDiv(100 * (m - v), m)

CmykBlack(m) ==
    IF IsHalfway(100 * (255 - m), 255) THEN CmykBlackDouble(m)
    ELSE RoundDiv(100 * (255 - m), 255)

RgbChannel(c, k) ==
    IF IsHalfway(255 * (100 - c) * (100 - k), 10000)
    THEN RgbChannelDouble(c, k)
    ELSE RoundDiv(255 * (100 - c) * (100 - k), 10000)

\* lines 92, 164: convert.rgb.cmyk of color-convert, whose results are
\* rounded to integers: k = 1 - max(r,g,b)/255,
\* c = (1 - r/255 - k) / (1 - k) || 0, as percentages
CmykOf(ch, k) == [c |-> ch[1], m |-> ch[2], y |-> ch[3], k |-> k]

CmykOfMax(rgb, m) ==
    CmykOf([i \in 1..3 |-> CmykChannel(rgb[i], m)], CmykBlack(m))

rgbToCmyk(rgb) == CmykOfMax(rgb, Max(rgb[1], Max(rgb[2], rgb[3])))

\* lines 166-171: convert.cmyk.rgb of color-convert, whose results are
\* rounded to integers: r = 255 (1 - min(1, c (1 - k) + k)) for fractions
cmykToRgb(cmyk) ==
    << RgbChannel(cmyk.c, cmyk.k), RgbChannel(cmyk.m, cmyk.k),
       RgbChannel(cmyk.y, cmyk.k) >>

\* ChannelPixel passing every channel on to convert.cmyk.rgb
ChannelPixelKeepsOthers(channel, rgb) == cmykToRgb(rgbToCmyk(rgb))

\* lines 158-176: the pixel renderChannelPreview writes for the pixel rgb
ChannelPixel(channel, rgb) ==
    LET cmyk == rgbToCmyk(rgb)
    IN  cmykToRgb([c |-> IF channel = "cyan" THEN cmyk.c ELSE 0,
                   m |-> IF channel = "magenta" THEN cmyk.m ELSE 0,
                   y |-> IF channel = "yellow" THEN cmyk.y ELSE 0,
                   k |-> IF channel = "black" THEN cmyk.k ELSE 0])

(***************************************************************************)
(* The cluster map of analyzeImage: a JavaScript Map, which iterates in    *)
(* insertion order, as a sequence of [hex, count] entries.                 *)
(***************************************************************************)
HasKey(map, h) == \E i \in 1..Len(map) : map[i].hex = h

\* Map.get(h) || 0
GetOrZero(map, h) ==
    IF HasKey(map, h)
    THEN map[CHOOSE i \in 1..Len(map) : map[i].hex = h].count
    ELSE 0

\* Map.set(h, n): in place for a present key, appended for a new one
MapSet(map, h, n) ==
    IF HasKey(map, h)
    THEN [i \in 1..Len(map) |->
            IF map[i].hex = h THEN [hex |-> h, count |-> n] ELSE map[i]]
    ELSE Append(map, [hex |-> h, count |-> n])

\* lines 100-106: the entries the scan would stop at
Matches(map, h) == { i \in 1..Len(map) : IsSimilar(h, map[i].hex) }

\* FirstMatch choosing the closest similar key instead
NearestMatch(map, h) ==
    CHOOSE i \in Matches(map, h) :
        \A j \in Matches(map, h) :
            \/ colorDistanceSq(h, map[i].hex) < colorDistanceSq(h, map[j].hex)
            \/ /\ colorDistanceSq(h, map[i].hex) = colorDistanceSq(h, map[j].hex)
               /\ i <= j

\* lines 100-106: the scan stops at the first similar key, in Map order
FirstMatch(map, h) ==
    CHOOSE i \in Matches(map, h) : \A j \in Matches(map, h) : i <= j

\* Observe leaving a matched cluster's count as it was
ObserveForgetsMatch(map, h) ==
    IF Matches(map, h) # {}
    THEN map
    ELSE MapSet(map, h, GetOrZero(map, h) + 1)

\* Observe moving a matched cluster's key to the new sample
ObserveAdoptsSample(map, h) ==
    IF Matches(map, h) # {}
    THEN [i \in 1..Len(map) |->
            IF i = FirstMatch(map, h)
            THEN [hex |-> h, count |-> map[i].count + 1]
            ELSE map[i]]
    ELSE MapSet(map, h, GetOrZero(map, h) + 1)

\* lines 99-109: one sample observed
Observe(map, h) ==
    IF Matches(map, h) # {}
    THEN LET e == map[FirstMatch(map, h)].hex
         IN  MapSet(map, e, GetOrZero(map, e) + 1)
    ELSE MapSet(map, h, GetOrZero(map, h) + 1)

(***************************************************************************)
(* Ranking, lines 119-126: Array.prototype.sort is stable, so the sort by  *)
(* b[1] - a[1] is an insertion sort that never moves an entry before one   *)
(* with the same count.                                                    *)
(***************************************************************************)
\* the comparator of line 120
Compare(a, b) == b.count - a.count

\* InsertRanked moving an entry before the entries of the same count
RECURSIVE InsertRankedTiesFirst(_, _)
InsertRankedTiesFirst(sorted, e) ==
    IF sorted = << >> THEN << e >>
    ELSE IF Compare(sorted[Len(sorted)], e) < 0
         THEN Append(sorted, e)
         ELSE Append(InsertRankedTiesFirst(
                         SubSeq(sorted, 1, Len(sorted) - 1), e),
                     sorted[Len(sorted)])

RECURSIVE InsertRanked(_, _)
InsertRanked(sorted, e) ==
    IF sorted = << >> THEN << e >>
    ELSE IF Compare(sorted[Len(sorted)], e) <= 0
         THEN Append(sorted, e)
         ELSE Append(InsertRanked(SubSeq(sorted, 1, Len(sorted) - 1), e),
                     sorted[Len(sorted)])

RECURSIVE SortEntries(_)
SortEntries(map) ==
    IF map = << >> THEN << >>
    ELSE InsertRanked(SortEntries(SubSeq(map, 1, Len(map) - 1)),
                      map[Len(map)])

\* a JavaScript quotient n / d of integers n, d >= 0, as a fraction:
\* 0 / 0 is NaN
Quot(n, d) == [num |-> n, den |-> d]
IsNaN(q) == q.num = 0 /\ q.den = 0

\* lines 119-126
SortedColors(map, totalSamples) ==
    LET sorted == SortEntries(map)
    IN  [i \in 1..Len(sorted) |->
            [hex        |-> sorted[i].hex,
             count      |-> sorted[i].count,
             percentage |-> Quot(sorted[i].count * 100, totalSamples),
             cmyk       |-> rgbToCmyk(hexToRgb(sorted[i].hex))]]

\* lines 128-133
OverallPercentages(sums, totalSamples) ==
    [cyan    |-> Quot(sums.c, totalSamples),
     magenta |-> Quot(sums.m, totalSamples),
     yellow  |-> Quot(sums.y, totalSamples),
     black   |-> Quot(sums.k, totalSamples)]


(***************************************************************************)
(* The images a user may drop.  An image is its dimensions and the set of  *)
(* colours its pixels take; getImageData returns any of them.              *)
(***************************************************************************)
Black == << 0, 0, 0 >>
Dark12 == << 12, 0, 0 >>
Dark20 == << 20, 0, 0 >>
Edge15 == << 9, 12, 0 >>
Teal == << 10, 200, 130 >>

Image(w, h, colours) == [width |-> w, height |-> h, palette |-> colours]

Images ==
    { Image(12, 7, {Black, Dark20, Teal}),
      Image(12, 3, {Black, Dark12, Dark20, Edge15}),
      Image(1, 3000, {Teal}),
      Image(1062, 3, {Teal}),
      Image(21, 1000, {Teal}),
      Image(50, 1000, {Teal}) }

\* the dimensions of the images of SpecScale
ScaleDims == { 1, 3, 300, 400, 531, 1000, 1001, 1062, 1500, 2000, 3000 }
ScaleImages == { Image(w, h, {Teal}) : w \in ScaleDims, h \in ScaleDims }

\* loads in flight at once
MaxLoading == 2

Channels == { "cyan", "magenta", "yellow", "black" }

ZeroCmyk == [c |-> 0, m |-> 0, y |-> 0, k |-> 0]

InitLocals ==
    /\ pc = "idle"
    /\ canvas = [width |-> 0, height |-> 0]
    /\ totalPixels = 0
    /\ pixelsAnalyzed = 0
    /\ x = 0
    /\ y = 0
    /\ hex = NoHex
    /\ colorMap = << >>
    /\ overallCmyk = ZeroCmyk
    /\ firstHex = NoHex
    /\ cancelRequested = FALSE

\* lines 11-15: the component as mounted
Init ==
    /\ imageData = Null
    /\ colorStats = Null
    /\ isAnalyzing = FALSE
    /\ progress = 0
    /\ activeChannel = NoChannel
    /\ reading = {}
    /\ decoding = {}
    /\ InitLocals

locals == << pc, canvas, totalPixels, pixelsAnalyzed, x, y, hex, colorMap,
             overallCmyk, firstHex, cancelRequested >>

(***************************************************************************)
(* Handlers.  JavaScript runs one handler at a time: none starts while     *)
(* analyzeImage is inside its loop (pc = "sampling").                      *)
(***************************************************************************)
\* lines 17-32, 250-251: a file dropped on the dropzone, which is rendered
\* while no image is loaded
OnDrop(img) ==
    /\ pc = "idle"
    /\ imageData = Null
    /\ img \notin reading \cup decoding
    /\ Cardinality(reading \cup decoding) < MaxLoading
    /\ reading' = reading \cup {img}
    /\ UNCHANGED << imageData, colorStats, isAnalyzing, progress,
                    activeChannel, decoding, locals >>

\* lines 22-30: reader.onload creates the Image and sets its src
ReaderOnload(img) ==
    /\ pc = "idle"
    /\ img \in reading
    /\ reading' = reading \ {img}
    /\ decoding' = decoding \cup {img}
    /\ UNCHANGED << imageData, colorStats, isAnalyzing, progress,
                    activeChannel, locals >>

\* ImgOnload without setColorStats(null)
ImgOnloadKeepsReport(img) ==
    /\ pc = "idle"
    /\ img \in decoding
    /\ decoding' = decoding \ {img}
    /\ imageData' = img
    /\ activeChannel' = NoChannel
    /\ UNCHANGED << colorStats, isAnalyzing, progress, reading, locals >>

\* ImgOnload without setActiveChannel(null)
ImgOnloadKeepsChannel(img) ==
    /\ pc = "idle"
    /\ img \in decoding
    /\ decoding' = decoding \ {img}
    /\ imageData' = img
    /\ colorStats' = Null
    /\ UNCHANGED << activeChannel, isAnalyzing, progress, reading, locals >>

\* lines 24-28: img.onload
ImgOnload(img) ==
    /\ pc = "idle"
    /\ img \in decoding
    /\ decoding' = decoding \ {img}
    /\ imageData' = img
    /\ colorStats' = Null
    /\ activeChannel' = NoChannel
    /\ UNCHANGED << isAnalyzing, progress, reading, locals >>

\* ResetImage without setColorStats(null)
ResetImageKeepsReport ==
    /\ pc = "idle"
    /\ imageData # Null
    /\ imageData' = Null
    /\ activeChannel' = NoChannel
    /\ cancelRequested' = FALSE
    /\ UNCHANGED << colorStats, isAnalyzing, progress, reading, decoding, pc,
                    canvas, totalPixels, pixelsAnalyzed, x, y, hex, colorMap,
                    overallCmyk, firstHex >>

\* lines 42-46; the Reset buttons of lines 328 and 681 are rendered while
\* an image is loaded
ResetImage ==
    /\ pc = "idle"
    /\ imageData # Null
    /\ imageData' = Null
    /\ colorStats' = Null
    /\ activeChannel' = NoChannel
    /\ cancelRequested' = FALSE
    /\ UNCHANGED << isAnalyzing, progress, reading, decoding, pc, canvas,
                    totalPixels, pixelsAnalyzed, x, y, hex, colorMap,
                    overallCmyk, firstHex >>

\* line 642: the Show / Hide button of a channel, rendered with the report
ToggleChannel(channel) ==
    /\ pc = "idle"
    /\ colorStats # Null
    /\ activeChannel' = IF activeChannel = channel THEN NoChannel ELSE channel
    /\ UNCHANGED << imageData, colorStats, isAnalyzing, progress, reading,
                    decoding, locals >>

\* lines 144-180, rendered at line 665 for the active channel: a canvas of
\* the size of the stored one, holding a copy of the stored buffer with
\* every pixel replaced.  A buffer is known by the colours of its pixels:
\* pixels maps a stored colour to the colour written in its place.
renderChannelPreview(channel) ==
    IF imageData = Null \/ colorStats = Null THEN Null
    ELSE [width  |-> colorStats.canvasData.width,
          height |-> colorStats.canvasData.height,
          pixels |-> [rgb \in colorStats.canvasData.image.palette |->
                         ChannelPixel(channel, rgb)]]

(***************************************************************************)
(* analyzeImage, lines 48-142.                                             *)
(***************************************************************************)
\* line 70
TotalPixels(w, h) == CeilDiv(w * h, sampleEvery * sampleEvery)

\* lines 48-79, up to the loop; the Analyze button of line 305 is rendered
\* while an image is loaded and no report is shown (line 285), and it is
\* disabled while isAnalyzing (line 306)
AnalyzeStart ==
    /\ pc = "idle"
    /\ imageData # Null
    /\ colorStats = Null
    /\ ~isAnalyzing
    /\ isAnalyzing' = TRUE
    /\ progress' = 0
    /\ LET w == CanvasDim(imageData.width, imageData.width, imageData.height)
           h == CanvasDim(imageData.height, imageData.width, imageData.height)
       IN  /\ canvas' = [width |-> w, height |-> h]
           /\ totalPixels' = TotalPixels(w, h)
    /\ pixelsAnalyzed' = 0
    /\ colorMap' = << >>
    /\ overallCmyk' = ZeroCmyk
    /\ x' = 0
    /\ y' = 0
    /\ hex' = NoHex
    /\ firstHex' = NoHex
    /\ cancelRequested' = FALSE
    /\ pc' = "sampling"
    /\ UNCHANGED << imageData, colorStats, activeChannel, reading, decoding >>

\* InLoop stopping one column early
InLoopSkipsLastColumn == x + sampleEvery < canvas.width /\ y < canvas.height

\* lines 81-82: the loop conditions
InLoop == x < canvas.width /\ y < canvas.height

\* the ratio of line 113 turned upside down
ProgressValueInverted(done, total) == RoundDiv(100 * total, done)

\* line 113: Math.round((pixelsAnalyzed / totalPixels) * 100); the double is
\* next to the exact ratio, and decides when that is half-way
ProgressValue(done, total) ==
    IF IsHalfway(100 * done, total)
    THEN MathRound(FTimes(FQuot(FromInt(done), FromInt(total)), FromInt(100)))
    ELSE RoundDiv(100 * done, total)

\* lines 93-96: the channel sums
AddCmyk(sums, cmyk) ==
    [c |-> sums.c + cmyk.c, m |-> sums.m + cmyk.m,
     y |-> sums.y + cmyk.y, k |-> sums.k + cmyk.k]

\* lines 83-115: one iteration of the inner loop, and the loop increments
SampleStep ==
    /\ pc = "sampling"
    /\ InLoop
    /\ \E rgb \in imageData.palette :
          /\ hex' = ToHex(rgb)
          /\ overallCmyk' = AddCmyk(overallCmyk, rgbToCmyk(rgb))
          /\ colorMap' = Observe(colorMap, ToHex(rgb))
          /\ firstHex' = IF pixelsAnalyzed = 0 THEN ToHex(rgb) ELSE firstHex
    /\ pixelsAnalyzed' = pixelsAnalyzed + 1
    /\ progress' = IF (pixelsAnalyzed + 1) % ProgressEvery = 0
                   THEN ProgressValue(pixelsAnalyzed + 1, totalPixels)
                   ELSE progress
    /\ IF y + sampleEvery < canvas.height
       THEN /\ y' = y + sampleEvery
            /\ x' = x
       ELSE /\ y' = 0
            /\ x' = x + sampleEvery
    /\ UNCHANGED << imageData, colorStats, isAnalyzing, activeChannel, reading,
                    decoding, pc, canvas, totalPixels, cancelRequested >>

\* lines 118-141: after the loop.  The locals of analyzeImage end with it.
AnalyzeFinish ==
    /\ pc = "sampling"
    /\ ~InLoop
    /\ colorStats' =
          [colors      |-> SortedColors(colorMap, pixelsAnalyzed),
           overallCmyk |-> OverallPercentages(overallCmyk, pixelsAnalyzed),
           totalPixels |-> pixelsAnalyzed,
           canvasData  |-> [image  |-> imageData,
                            width  |-> canvas.width,
                            height |-> canvas.height]]
    /\ isAnalyzing' = FALSE
    /\ pc' = "idle"
    /\ canvas' = [width |-> 0, height |-> 0]
    /\ totalPixels' = 0
    /\ pixelsAnalyzed' = 0
    /\ x' = 0
    /\ y' = 0
    /\ hex' = NoHex
    /\ colorMap' = << >>
    /\ overallCmyk' = ZeroCmyk
    /\ firstHex' = NoHex
    /\ UNCHANGED << imageData, progress, activeChannel, reading, decoding,
                    cancelRequested >>

\* The user clicks Reset while the loop of lines 81-116 runs.  The loop
\* reads no flag and yields to no handler: the click waits for the handler
\* to return.
CancelRequest ==
    /\ pc = "sampling"
    /\ InLoop
    /\ ~cancelRequested
    /\ cancelRequested' = TRUE
    /\ UNCHANGED << imageData, colorStats, isAnalyzing, progress,
                    activeChannel, reading, decoding, pc, canvas, totalPixels,
                    pixelsAnalyzed, x, y, hex, colorMap, overallCmyk,
                    firstHex >>

Next ==
    \/ \E img \in Images : OnDrop(img)
    \/ \E img \in Images : ReaderOnload(img)
    \/ \E img \in Images : ImgOnload(img)
    \/ ResetImage
    \/ \E channel \in Channels : ToggleChannel(channel)
    \/ AnalyzeStart
    \/ SampleStep
    \/ AnalyzeFinish
    \/ CancelRequest

Spec == Init /\ [][Next]_vars

(***************************************************************************)
(* Failures.  A canvas call of the loop (getImageData, line 83) throws:    *)
(* analyzeImage has no try / catch, so the exception leaves the handler    *)
(* and its locals; the state set before it (lines 51-52, 113) stays.       *)
(***************************************************************************)
AnalyzeThrows ==
    /\ pc = "sampling"
    /\ InLoop
    /\ pc' = "idle"
    /\ canvas' = [width |-> 0, height |-> 0]
    /\ totalPixels' = 0
    /\ pixelsAnalyzed' = 0
    /\ x' = 0
    /\ y' = 0
    /\ hex' = NoHex
    /\ colorMap' = << >>
    /\ overallCmyk' = ZeroCmyk
    /\ firstHex' = NoHex
    /\ UNCHANGED << imageData, colorStats, isAnalyzing, progress,
                    activeChannel, reading, decoding, cancelRequested >>

NextFail == Next \/ AnalyzeThrows

SpecFail == Init /\ [][NextFail]_vars

(***************************************************************************)
(* The scaling step alone, over images of many sizes: each image of        *)
(* ScaleImages is loaded, and analyzeImage runs up to its loop.            *)
(***************************************************************************)
InitScale ==
    /\ imageData \in ScaleImages
    /\ colorStats = Null
    /\ isAnalyzing = FALSE
    /\ progress = 0
    /\ activeChannel = NoChannel
    /\ reading = {}
    /\ decoding = {}
    /\ InitLocals

NextScale == AnalyzeStart

SpecScale == InitScale /\ [][NextScale]_vars


(***************************************************************************)
(* Properties.                                                             *)
(***************************************************************************)
RECURSIVE SumCounts(_)
SumCounts(entries) ==
    IF entries = << >> THEN 0
    ELSE entries[1].count + SumCounts(Tail(entries))

\* the number of points of the sampling grid of a w x h buffer
GridCount(w, h) == CeilDiv(w, sampleEvery) * CeilDiv(h, sampleEvery)

\* the loop of analyzeImage has ended and its results are not yet published
AtLoopExit == pc = "sampling" /\ ~InLoop

\* C1: at loop exit the up-front total equals ceil(W/S) * ceil(H/S), and the
\* number of samples processed equals that up-front total.
C1_TotalMatchesRealizedCount ==
    AtLoopExit =>
        /\ totalPixels = GridCount(canvas.width, canvas.height)
        /\ pixelsAnalyzed = totalPixels

\* C2: every sample is counted in exactly one cluster: the cluster counts sum
\* to the number of samples processed, and in a report they sum to
\* totalSamples and the percentages sum to 100 when there is a sample.
C2_EverySampleInOneCluster ==
    /\ pc = "sampling" => SumCounts(colorMap) = pixelsAnalyzed
    /\ colorStats # Null =>
          LET cs == colorStats.colors
              n  == colorStats.totalPixels
          IN  /\ SumCounts(cs) = n
              /\ \A i \in 1..Len(cs) : cs[i].percentage.den = n
              /\ n > 0 =>
                    SumCounts([i \in 1..Len(cs) |->
                                 [count |-> cs[i].percentage.num]]) = 100 * n

\* a report of several samples, some of which were merged into a cluster
C2_Witness ==
    /\ colorStats # Null
    /\ colorStats.totalPixels = 3
    /\ Len(colorStats.colors) = 2

\* a sample was observed in this step
SampleTaken == pc = "sampling" /\ pixelsAnalyzed' = pixelsAnalyzed + 1

\* C3: a sample increments the earliest-inserted representative at distance
\* below 15, whatever the later ones are, and nothing else changes; a new
\* cluster of count 1 is appended only when no representative is that close.
C3_FirstMatchPolicy ==
    [][SampleTaken =>
        LET near == { i \in 1..Len(colorMap) :
                        colorDistanceSq(hex', colorMap[i].hex)
                            < Threshold * Threshold }
        IN  IF near # {}
            THEN /\ Len(colorMap') = Len(colorMap)
                 /\ \A i \in 1..Len(colorMap) :
                       /\ colorMap'[i].hex = colorMap[i].hex
                       /\ colorMap'[i].count =
                             IF \A j \in near : i <= j /\ i \in near
                             THEN colorMap[i].count + 1
                             ELSE colorMap[i].count
            ELSE colorMap' = Append(colorMap, [hex |-> hex', count |-> 1])
      ]_vars

\* the third sample joined the first cluster although the second
\* representative is strictly closer to it
C3_Witness ==
    /\ pc = "sampling"
    /\ pixelsAnalyzed = 3
    /\ Len(colorMap) = 2
    /\ colorMap[1].count = 2
    /\ colorMap[2].count = 1
    /\ colorDistanceSq(hex, colorMap[1].hex) < Threshold * Threshold
    /\ colorDistanceSq(hex, colorMap[2].hex)
          < colorDistanceSq(hex, colorMap[1].hex)

\* C4: during a pass a cluster keeps its key and its position, is never
\* removed, and its count never decreases; two samples at distance below 15
\* give one cluster of count 2 keyed by the first.
C4_ClustersAreStable ==
    /\ [][pc = "sampling" /\ pc' = "sampling" =>
            /\ Len(colorMap') >= Len(colorMap)
            /\ \A i \in 1..Len(colorMap) :
                  /\ colorMap'[i].hex = colorMap[i].hex
                  /\ colorMap'[i].count >= colorMap[i].count
         ]_vars
    /\ [](pc = "sampling" /\ pixelsAnalyzed = 2
             /\ colorDistanceSq(firstHex, hex) < Threshold * Threshold
          => colorMap = << [hex |-> firstHex, count |-> 2] >>)

\* two different colours closer than 15 were observed in sequence
C4_Witness ==
    /\ pc = "sampling"
    /\ pixelsAnalyzed = 2
    /\ hex # firstHex
    /\ colorDistanceSq(firstHex, hex) < Threshold * Threshold
    /\ colorMap = << [hex |-> firstHex, count |-> 2] >>

\* C5: from an empty map, two colours at distance 15 or more (squared
\* distance 225 or more) give two clusters of count 1.
C5_FarColoursSplit ==
    pc = "sampling" /\ pixelsAnalyzed = 2
        /\ colorDistanceSq(firstHex, hex) >= Threshold * Threshold
    => colorMap = << [hex |-> firstHex, count |-> 1],
                     [hex |-> hex, count |-> 1] >>

\* two colours at distance exactly 15 were observed
C5_Witness ==
    /\ pc = "sampling"
    /\ pixelsAnalyzed = 2
    /\ colorDistanceSq(firstHex, hex) = Threshold * Threshold
    /\ Len(colorMap) = 2

\* the position of key h in the map
PosOf(map, h) == CHOOSE i \in 1..Len(map) : map[i].hex = h

\* C6: the ranked list is a permutation of the clusters, by non-increasing
\* count, equal counts in insertion order, each with percentage
\* count / totalSamples * 100.
C6_RankedList ==
    [][pc = "sampling" /\ pc' = "idle" =>
        LET cs == colorStats'.colors
        IN  /\ Len(cs) = Len(colorMap)
            /\ \A i \in 1..Len(colorMap) :
                  \E j \in 1..Len(cs) :
                     /\ cs[j].hex = colorMap[i].hex
                     /\ cs[j].count = colorMap[i].count
            /\ \A j, k \in 1..Len(cs) :
                  j < k =>
                     /\ cs[j].hex # cs[k].hex
                     /\ cs[j].count >= cs[k].count
                     /\ cs[j].count = cs[k].count =>
                           PosOf(colorMap, cs[j].hex) < PosOf(colorMap, cs[k].hex)
            /\ \A j \in 1..Len(cs) :
                  /\ cs[j].percentage.num = cs[j].count * 100
                  /\ cs[j].percentage.den = pixelsAnalyzed
      ]_vars

\* a report in which the sort moved a cluster forward and left a tie
C6_Witness ==
    /\ colorStats # Null
    /\ Len(colorStats.colors) = 3
    /\ colorStats.colors[1].count > colorStats.colors[2].count
    /\ colorStats.colors[2].count = colorStats.colors[3].count
    /\ colorStats.colors[1].hex # ToHex(Black)
    /\ colorStats.canvasData.image.palette = {Black, Dark20, Teal}

\* C7: an image within 1000 x 1000 keeps its dimensions; a larger one is
\* scaled so that its longer side becomes exactly 1000.
C7_ScalingExact ==
    pc = "sampling" =>
        IF Max(imageData.width, imageData.height) <= maxDimension
        THEN canvas = [width |-> imageData.width, height |-> imageData.height]
        ELSE Max(canvas.width, canvas.height) = maxDimension

\* C8: a pass of zero samples publishes no report.
C8_ZeroSamplesNoReport ==
    colorStats # Null => colorStats.totalPixels > 0

RECURSIVE SetMin(_)
SetMin(S) ==
    IF Cardinality(S) = 1 THEN CHOOSE v \in S : TRUE
    ELSE LET v == CHOOSE w \in S : TRUE IN Min(v, SetMin(S \ {v}))

RECURSIVE SetMax(_)
SetMax(S) ==
    IF Cardinality(S) = 1 THEN CHOOSE v \in S : TRUE
    ELSE LET v == CHOOSE w \in S : TRUE IN Max(v, SetMax(S \ {v}))

\* the average q is one of n values of V
CoversSamples(q, n, V) ==
    /\ q.den = n
    /\ n * SetMin(V) <= q.num
    /\ q.num <= n * SetMax(V)

\* C9: no report is exposed while a pass runs, and a published report is of
\* a complete pass: its totalPixels is the sample count of the whole grid of
\* the scaled buffer, and its cluster counts and CMYK averages are over that
\* many samples.
C9_ReportOnlyForCompletePass ==
    /\ pc = "sampling" => colorStats = Null
    /\ colorStats # Null =>
          LET cd  == colorStats.canvasData
              n   == GridCount(cd.width, cd.height)
              avg == colorStats.overallCmyk
              pal == { rgbToCmyk(rgb) : rgb \in cd.image.palette }
          IN  /\ cd.width = CanvasDim(cd.image.width, cd.image.width,
                                      cd.image.height)
              /\ cd.height = CanvasDim(cd.image.height, cd.image.width,
                                       cd.image.height)
              /\ colorStats.totalPixels = n
              /\ SumCounts(colorStats.colors) = n
              /\ CoversSamples(avg.cyan, n, { v.c : v \in pal })
              /\ CoversSamples(avg.magenta, n, { v.m : v \in pal })
              /\ CoversSamples(avg.yellow, n, { v.y : v \in pal })
              /\ CoversSamples(avg.black, n, { v.k : v \in pal })

\* the report of the six samples of a 12 x 7 buffer
C9_Witness ==
    /\ colorStats # Null
    /\ colorStats.canvasData.width = 12
    /\ colorStats.canvasData.height = 7
    /\ colorStats.totalPixels = 6

\* C10: a pass that was cancelled while sampling never completes with a
\* report.
C10_CancelledNeverCompletes ==
    ~(cancelRequested /\ colorStats # Null)


(***************************************************************************)
(* The conversions, pixel by pixel: an image of one pixel of each colour   *)
(* of Pixels is loaded, analysed, and previewed channel by channel.        *)
(***************************************************************************)
Grays == { << v, v, v >> : v \in 0..255 }

\* the colours a preview of one channel is made of
Ramps ==
    UNION { { << v, 255, 255 >>, << 255, v, 255 >>, << 255, 255, v >> } :
            v \in 0..255 }

Pixels ==
    Grays \cup Ramps \cup { << 0, 49, 44 >> }
          \cup { << r, g, b >> : r \in { 0, 5, 96, 200, 255 },
                                 g \in { 0, 8, 96, 128, 255 },
                                 b \in { 0, 190, 255 } }

PixelImages == { Image(1, 1, { rgb }) : rgb \in Pixels }

InitPixel ==
    /\ imageData \in PixelImages
    /\ colorStats = Null
    /\ isAnalyzing = FALSE
    /\ progress = 0
    /\ activeChannel = NoChannel
    /\ reading = {}
    /\ decoding = {}
    /\ InitLocals

NextPixel ==
    \/ AnalyzeStart
    \/ SampleStep
    \/ AnalyzeFinish
    \/ \E channel \in Channels : ToggleChannel(channel)

SpecPixel == InitPixel /\ [][NextPixel]_vars

\* C11: a failure during Scaling or Sampling ends the run: once the handler
\* has been left the component is not in progress (isAnalyzing is false).
C11_FailureEndsRun ==
    pc = "idle" => ~isAnalyzing

\* C12: within one run the progress values never decrease, and progress
\* changes only at a multiple of 1000 samples, to an integer nearest to
\* the percentage of pixelsAnalyzed over totalPixels.
C12_ProgressMonotone ==
    [][(pc = "sampling" /\ pc' = "sampling")
         => /\ progress' >= progress
            /\ progress' # progress
                 => /\ pixelsAnalyzed' % ProgressEvery = 0
                    /\ 2 * (100 * pixelsAnalyzed' - progress' * totalPixels)
                          <= totalPixels
                    /\ 2 * (progress' * totalPixels - 100 * pixelsAnalyzed')
                          <= totalPixels]_vars

C12_Witness ==
    /\ pc = "sampling"
    /\ pixelsAnalyzed = 2 * ProgressEvery
    /\ progress = 100

\* C17: every progress value is an integer between 0 and 100.
C17_ProgressInRange ==
    progress \in 0..100

\* C16: whenever the stored image changes (a reset, a completed load) the
\* report and the active channel become null, and a
\* report that appears is the whole result of the pass that just ended, for
\* the image stored, and replaces the previous value in one step.
C16_StateReplacedWhole ==
    [][/\ imageData' # imageData
          => colorStats' = Null /\ activeChannel' = NoChannel
       /\ (colorStats' # colorStats /\ colorStats' # Null)
          => /\ pc = "sampling"
             /\ colorStats' =
                  [colors      |-> SortedColors(colorMap, pixelsAnalyzed),
                   overallCmyk |-> OverallPercentages(overallCmyk,
                                                      pixelsAnalyzed),
                   totalPixels |-> pixelsAnalyzed,
                   canvasData  |-> [image  |-> imageData,
                                    width  |-> canvas.width,
                                    height |-> canvas.height]]
      ]_vars

\* a pass of 2000 samples was completed and its image was then reset
C16_Witness ==
    /\ imageData = Null
    /\ colorStats = Null
    /\ activeChannel = NoChannel
    /\ progress = 100
    /\ pc = "idle"

\* C18: any two distinct representatives of the map are at distance 15 or
\* more, and a representative is created with count exactly 1, from a
\* sample that matched none of the existing ones.
C18_RepresentativesFarApart ==
    [][/\ \A i, j \in 1..Len(colorMap') :
            i # j => colorDistanceSq(colorMap'[i].hex, colorMap'[j].hex)
                        >= Threshold * Threshold
       /\ Len(colorMap') > Len(colorMap)
          => /\ colorMap'[Len(colorMap')] = [hex |-> hex', count |-> 1]
             /\ SubSeq(colorMap', 1, Len(colorMap)) = colorMap
      ]_vars

\* two representatives at distance exactly 15
C18_Witness ==
    \E i, j \in 1..Len(colorMap) :
        /\ i < j
        /\ colorDistanceSq(colorMap[i].hex, colorMap[j].hex)
              = Threshold * Threshold
        /\ colorMap[j].count = 1

\* C19: activeChannel is null or one of the four channels; a channel is
\* active only while a report exists, and a report exists only while an
\* image is stored.
C19_ChannelNeedsReport ==
    /\ activeChannel \in Channels \cup {NoChannel}
    /\ activeChannel # NoChannel => colorStats # Null
    /\ colorStats # Null => imageData # Null

C19_Witness ==
    /\ activeChannel = "cyan"
    /\ colorStats # Null
    /\ imageData # Null
    /\ decoding # {}

\* C20: a report that is shown was computed from the image that is stored,
\* whatever loads completed before or after it.
C20_ReportOfStoredImage ==
    colorStats # Null
        => /\ colorStats.canvasData.image = imageData
           /\ colorStats.canvasData.width = CanvasDim(imageData.width,
                                  imageData.width, imageData.height)
           /\ colorStats.canvasData.height = CanvasDim(imageData.height,
                                  imageData.width, imageData.height)

\* a report is shown while another load is still to complete
C20_Witness ==
    /\ colorStats # Null
    /\ decoding # {}
    /\ colorStats.totalPixels > 0

\* C13: convert.rgb.cmyk followed by convert.cmyk.rgb, no channel zeroed,
\* gives back the sampled pixel within 1 on every channel.
C13_RoundTripWithinOne ==
    (pc = "sampling" /\ pixelsAnalyzed = 1)
        => LET rgb  == hexToRgb(hex)
               back == cmykToRgb(overallCmyk)
           IN  \A i \in 1..3 :
                   back[i] - rgb[i] <= 1 /\ rgb[i] - back[i] <= 1

\* C14: the black channel preview of a gray buffer shows every pixel as it
\* was.
C14_BlackOfGrayIsIdentity ==
    (/\ activeChannel = "black"
     /\ colorStats # Null
     /\ imageData.palette \subseteq Grays)
        => \A rgb \in imageData.palette :
               renderChannelPreview("black").pixels[rgb] = rgb

=============================================================================
